---------------------------- MODULE Spec2Model ----------------------------
(***************************************************************************)
(* BudgetPulse: the AppController handlers (app-controller.js), the        *)
(* UIRenderer (ui-renderer.js) and the ChartManager (chart-manager.js),    *)
(* on top of the Data Manager and the local key-value store.               *)
(*                                                                         *)
(* Money is counted in hundredths of a rupee, so that toFixed(2) and       *)
(* parseFloat of a text with at most two fraction digits are exact.        *)
(* A JavaScript number is a pair <<kind, value>>: <<"fin", n>> is the      *)
(* finite number n/100, <<"nan", 0>> is NaN, <<"inf", 1>> and              *)
(* <<"inf", -1>> are +Infinity and -Infinity.  A text is a sequence of     *)
(* one-character strings.  A date string "YYYY-MM-DD" is the triple        *)
(* <<YYYY, MM, DD>> of its components and the empty string is <<>>.        *)
(***************************************************************************)
EXTENDS Integers, Sequences, FiniteSets, TLC

(***************************************************************************)
(* Bounds of the model.                                                    *)
(***************************************************************************)
\* Number of transactions ever created before the form stops being submitted.
MaxIssued == 2

\* The months offered by the month selector.
MonthChoices == {<<2025, 1>>, <<2024, 1>>}

\* The day the session runs on.
Today == <<2025, 1, 31>>

(***************************************************************************)
(* JavaScript numbers.                                                     *)
(***************************************************************************)
NaN == <<"nan", 0>>

PosInfinity == <<"inf", 1>>

NegInfinity == <<"inf", -1>>

Fin(n) == <<"fin", n>>

\* isNaN(x)
isNaN(x) == x[1] = "nan"

\* Number.isFinite(x)
isFinite(x) == x[1] = "fin"

\* x <= 0 ; every comparison with NaN is false
LeZero(x) ==
    CASE x[1] = "nan" -> FALSE
      [] x[1] = "inf" -> x[2] < 0
      [] OTHER -> x[2] <= 0

\* x > 0
GtZero(x) ==
    CASE x[1] = "nan" -> FALSE
      [] x[1] = "inf" -> x[2] > 0
      [] OTHER -> x[2] > 0

(***************************************************************************)
(* Texts.                                                                  *)
(***************************************************************************)
DigitChars == {"0", "1", "2", "3", "4", "5", "6", "7", "8", "9"}

DigitValue(c) ==
    CASE c = "0" -> 0 [] c = "1" -> 1 [] c = "2" -> 2 [] c = "3" -> 3
      [] c = "4" -> 4 [] c = "5" -> 5 [] c = "6" -> 6 [] c = "7" -> 7
      [] c = "8" -> 8 [] c = "9" -> 9

DigitChar(d) ==
    CASE d = 0 -> "0" [] d = 1 -> "1" [] d = 2 -> "2" [] d = 3 -> "3"
      [] d = 4 -> "4" [] d = 5 -> "5" [] d = 6 -> "6" [] d = 7 -> "7"
      [] d = 8 -> "8" [] d = 9 -> "9"

RECURSIVE TrimStart(_)
\* String.prototype.trimStart
TrimStart(s) ==
    IF s # <<>> /\ Head(s) = " " THEN TrimStart(Tail(s)) ELSE s

RECURSIVE TrimEnd(_)
\* String.prototype.trimEnd
TrimEnd(s) ==
    IF s # <<>> /\ s[Len(s)] = " " THEN TrimEnd(SubSeq(s, 1, Len(s) - 1)) ELSE s

\* String.prototype.trim
Trim(s) == TrimEnd(TrimStart(s))

RECURSIVE DigitRun(_)
\* The longest prefix of s made of decimal digits.
DigitRun(s) ==
    IF s # <<>> /\ Head(s) \in DigitChars
    THEN <<Head(s)>> \o DigitRun(Tail(s))
    ELSE <<>>

RECURSIVE DigitsValue(_)
\* The number written by a run of decimal digits.
DigitsValue(ds) ==
    IF ds = <<>> THEN 0
    ELSE 10 * DigitsValue(SubSeq(ds, 1, Len(ds) - 1)) + DigitValue(ds[Len(ds)])

\* The hundredths written by the fraction digits fs (at most two are kept).
FractionValue(fs) ==
    CASE Len(fs) = 0 -> 0
      [] Len(fs) = 1 -> 10 * DigitValue(fs[1])
      [] OTHER -> 10 * DigitValue(fs[1]) + DigitValue(fs[2])

\* parseFloat(text): leading white space is skipped, then an optional sign,
\* then the longest decimal literal (digits, optionally "." and digits); what
\* follows is ignored, and NaN is returned when no digit is found.
parseFloat(text) ==
    LET s == TrimStart(text)
        signed == s # <<>> /\ Head(s) \in {"-", "+"}
        sign == IF s # <<>> /\ Head(s) = "-" THEN -1 ELSE 1
        body == IF signed THEN Tail(s) ELSE s
        ip == DigitRun(body)
        rest == SubSeq(body, Len(ip) + 1, Len(body))
        fp == IF rest # <<>> /\ Head(rest) = "." THEN DigitRun(Tail(rest)) ELSE <<>>
    IN  IF ip = <<>> /\ fp = <<>>
        THEN NaN
        ELSE Fin(sign * (100 * DigitsValue(ip) + FractionValue(fp)))

\* parseInt(text, 10): as parseFloat, but the literal ends before a "."
parseInt(text) ==
    LET s == TrimStart(text)
        signed == s # <<>> /\ Head(s) \in {"-", "+"}
        sign == IF s # <<>> /\ Head(s) = "-" THEN -1 ELSE 1
        body == IF signed THEN Tail(s) ELSE s
        ip == DigitRun(body)
    IN  IF ip = <<>> THEN NaN ELSE Fin(sign * 100 * DigitsValue(ip))

RECURSIVE DecimalDigits(_)
\* The decimal digits of the natural number n.
DecimalDigits(n) ==
    IF n < 10 THEN <<DigitChar(n)>>
    ELSE DecimalDigits(n \div 10) \o <<DigitChar(n % 10)>>

\* Number.prototype.toFixed(2), for n >= 0 hundredths
toFixed2(n) ==
    DecimalDigits(n \div 100) \o <<".", DigitChar((n % 100) \div 10), DigitChar(n % 10)>>


(***************************************************************************)
(* What the user can enter.                                                *)
(***************************************************************************)
Fields == {"date", "type", "description", "amount"}

FormValue(d, t, s, a) == [date |-> d, type |-> t, description |-> s, amount |-> a]

\* The well-formed submissions: expenses of both amounts and an income on a
\* day of January 2025, and an expense in the month after it and in the year
\* before it.
ValidForms ==
    {FormValue(<<2025, 1, 31>>, "expense", <<"a">>, <<"1">>),
     FormValue(<<2025, 1, 31>>, "expense", <<"a">>, <<"2">>),
     FormValue(<<2025, 1, 31>>, "income", <<"a">>, <<"1">>),
     FormValue(<<2025, 2, 1>>, "expense", <<"a">>, <<"0", ".", "5">>),
     FormValue(<<2024, 1, 31>>, "expense", <<"a">>, <<"2">>)}

\* A well-formed submission whose description and amount are stored changed.
UntidyForms ==
    {FormValue(<<2025, 1, 31>>, "income", <<" ", "a", " ">>, <<"1", "x">>)}

\* The malformed submissions: every field wrong, a day that is not in the
\* calendar, an amount of zero and a negative amount.
InvalidForms ==
    {FormValue(<<>>, "transfer", <<" ">>, <<"x">>),
     FormValue(<<2025, 2, 30>>, "expense", <<"a">>, <<"1">>),
     FormValue(<<2025, 1, 31>>, "expense", <<"a">>, <<"0">>),
     FormValue(<<2025, 1, 31>>, "expense", <<"a">>, <<"-", "1">>)}

FormInputs == ValidForms \cup UntidyForms \cup InvalidForms

\* Every way of filling the form from a few values per field: a date that
\* is missing, not in the calendar or fine; a type that is missing, unknown
\* or one of the two; a description that is empty, blank or fine; an amount
\* that is missing, not a number, zero, negative or fine.
EveryForm ==
    {FormValue(d, t, s, a) :
        d \in {<<>>, <<2025, 2, 30>>, <<2025, 1, 31>>},
        t \in {"", "transfer", "income", "expense"},
        s \in {<<>>, <<" ">>, <<"a">>},
        a \in {<<>>, <<"x">>, <<"0">>, <<"-", "5">>, <<"1">>}}

\* The numbers handed to handleBudgetLimitChange.
LimitInputs == {NaN, PosInfinity, Fin(-100), Fin(0), Fin(200)}

\* The texts typed into the budget-limit input.
BudgetTexts == {<<>>, <<"-", "2">>, <<"2", ".", "0", "0">>}

(***************************************************************************)
(* Data Manager (js/data-manager.js).                                      *)
(***************************************************************************)
DaysInMonth(y, m) ==
    CASE m \in {4, 6, 9, 11} -> 30
      [] m = 2 -> IF (y % 4 = 0 /\ y % 100 # 0) \/ y % 400 = 0 THEN 29 ELSE 28
      [] OTHER -> 31

\* The date string is present and names a day of the calendar.
IsCalendarDate(d) ==
    /\ Len(d) = 3
    /\ d[2] \in 1..12
    /\ d[3] \in 1..DaysInMonth(d[1], d[2])

ErrorRecord(f, m) == [field |-> f, message |-> m]

\* validateTransaction(input): every rule is checked, one error per broken field.
validateTransaction(input) ==
    LET amount == parseFloat(input.amount)
        dateErrors ==
            IF input.date = <<>> THEN <<ErrorRecord("date", "Date is required")>>
            ELSE IF ~IsCalendarDate(input.date)
                 THEN <<ErrorRecord("date", "Date is invalid")>>
                 ELSE <<>>
        typeErrors ==
            IF input.type \notin {"income", "expense"}
            THEN <<ErrorRecord("type", "Type must be income or expense")>>
            ELSE <<>>
        descriptionErrors ==
            IF Trim(input.description) = <<>>
            THEN <<ErrorRecord("description", "Description is required")>>
            ELSE <<>>
        amountErrors ==
            IF input.amount = <<>> THEN <<ErrorRecord("amount", "Amount is required")>>
            ELSE IF isNaN(amount)
                 THEN <<ErrorRecord("amount", "Amount must be a number")>>
                 ELSE IF LeZero(amount)
                      THEN <<ErrorRecord("amount", "Amount must be positive")>>
                      ELSE <<>>
        errors == dateErrors \o typeErrors \o descriptionErrors \o amountErrors
    IN  [isValid |-> errors = <<>>, errors |-> errors]

\* An id taken from the size of the collection.
generateId_ByLength(list, n) == ToString(Len(list) + 1)

\* The id addTransaction generates, n ids having been generated before: a
\* string that was never given to a transaction of this collection.
generateId(list, n) == ToString(n + 1)

\* The collection after addTransaction(transaction), n ids having been
\* generated before.
addTransaction(list, transaction, n) ==
    Append(list, [id |-> generateId(list, n),
                  date |-> transaction.date,
                  type |-> transaction.type,
                  description |-> transaction.description,
                  amount |-> transaction.amount])

\* Whether deleteTransaction(id) finds an entry.
hasTransaction(list, id) == \E i \in 1..Len(list) : list[i].id = id

\* The collection after deleteTransaction(id).
deleteTransaction(list, id) == SelectSeq(list, LAMBDA t : t.id # id)

\* getTransactionsForMonth(year, month): by the date's own components.
getTransactionsForMonth(list, year, month) ==
    SelectSeq(list, LAMBDA t : Len(t.date) = 3 /\ t.date[1] = year /\ t.date[2] = month)

RECURSIVE SumOfType(_, _)
SumOfType(list, type) ==
    IF list = <<>> THEN 0
    ELSE (IF Head(list).type = type THEN Head(list).amount ELSE 0)
         + SumOfType(Tail(list), type)

calculateTotalIncome(list) == SumOfType(list, "income")

calculateTotalExpenses(list) == SumOfType(list, "expense")

calculateRemainingBudget(limit, totalExpenses) == limit - totalExpenses

getBudgetStatus(limit, totalExpenses) ==
    IF totalExpenses > limit THEN "over" ELSE "within"

\* getBudgetLimit(year, month): 0 for a month without a limit.
getBudgetLimit(limits, year, month) ==
    IF <<year, month>> \in DOMAIN limits THEN limits[<<year, month>>] ELSE 0

\* The limits after setBudgetLimit(year, month, value): only a strictly
\* positive finite value is stored.
setBudgetLimit(limits, year, month, value) ==
    IF isFinite(value) /\ GtZero(value)
    THEN [k \in DOMAIN limits \cup {<<year, month>>} |->
             IF k = <<year, month>> THEN value[2] ELSE limits[k]]
    ELSE limits

\* The selected month after setSelectedMonth(year, month).
setSelectedMonth(current, year, month) ==
    IF month \in 1..12 THEN [year |-> year, month |-> month] ELSE current

(***************************************************************************)
(* The key-value store (js/storage-service.js): the collection and the     *)
(* limits are kept as JSON.  A JSON string holds the text it was made      *)
(* from; a JSON number is the shortest decimal text of the number; the     *)
(* limits are keyed by the text "YYYY-MM".                                 *)
(***************************************************************************)
\* JSON.stringify of the number of n >= 0 hundredths.
JsonNumber(n) ==
    LET whole == DecimalDigits(n \div 100)
        fraction == n % 100
    IN  IF fraction = 0 THEN whole
        ELSE IF fraction % 10 = 0
             THEN whole \o <<".", DigitChar(fraction \div 10)>>
             ELSE whole \o <<".", DigitChar(fraction \div 10), DigitChar(fraction % 10)>>

\* JSON.parse of a number text, in hundredths.
JsonNumberValue(text) == parseFloat(text)[2]

\* The key of the limit of (year, month): the year, "-", the month in two digits.
MonthKey(year, month) ==
    DecimalDigits(year) \o <<"-">>
        \o (IF month < 10 THEN <<"0">> ELSE <<>>) \o DecimalDigits(month)

\* The (year, month) a key was made from.
MonthOfKey(key) ==
    LET year == DigitRun(key)
    IN  <<DigitsValue(year), DigitsValue(SubSeq(key, Len(year) + 2, Len(key)))>>

\* The record saved for the collection list.
saveTransactions(list) ==
    [i \in 1..Len(list) |->
        [id |-> list[i].id, date |-> list[i].date, type |-> list[i].type,
         description |-> list[i].description, amount |-> JsonNumber(list[i].amount)]]

\* The collection read from the saved record; none is the empty collection.
loadTransactions(stored) ==
    [i \in 1..Len(stored) |->
        [id |-> stored[i].id, date |-> stored[i].date, type |-> stored[i].type,
         description |-> stored[i].description,
         amount |-> JsonNumberValue(stored[i].amount)]]

\* The record saved for the limits.
saveBudgetLimits(limits) ==
    IF DOMAIN limits = {} THEN <<>>
    ELSE [key \in {MonthKey(k[1], k[2]) : k \in DOMAIN limits} |->
             JsonNumber(limits[CHOOSE k \in DOMAIN limits : MonthKey(k[1], k[2]) = key])]

\* The limits read from the saved record; none is no limit.
loadBudgetLimits(stored) ==
    IF DOMAIN stored = {} THEN <<>>
    ELSE [k \in {MonthOfKey(key) : key \in DOMAIN stored} |->
             JsonNumberValue(stored[CHOOSE key \in DOMAIN stored : MonthOfKey(key) = k])]

(***************************************************************************)
(* State.                                                                  *)
(***************************************************************************)
VARIABLES
    transactions,        \* Data Manager: the collection, in insertion order
    budgetLimits,        \* Data Manager: month key -> limit
    selectedMonth,       \* Data Manager: [year, month]
    issued,              \* Data Manager: number of ids generated so far
    everIssued,          \* history: the ids addTransaction has generated
    storedTransactions,  \* key-value store: the persisted collection
    storedBudgetLimits,  \* key-value store: the persisted limits
    firstRunKey,         \* key-value store: budgetpulse_initialized is set
    initialized,         \* AppController.initialized
    listeners,           \* event -> number of listeners registered for it
    dataManagerInits,    \* number of times DataManager.init() has run
    form,                \* the values of the four form inputs
    errorText,           \* field -> text of its error element
    inputError,          \* the inputs carrying the class "error"
    monthSelectElement,  \* the page has the month selector element
    emptyMessageElement, \* the page has the empty-list message element
    monthSelect,         \* value of the month selector, <<>> when empty
    budgetLimitInput,    \* value of the budget-limit input
    tableRows,           \* the rows of the transaction table, top first
    emptyMessageShown,   \* the empty-list message is displayed
    tableShown,          \* the transaction table is displayed
    handedList,          \* the array renderTransactionList was handed, after the call
    summary,             \* the summary record refreshUI built last
    summaryDom,          \* what the summary elements show
    chartLibrary,        \* typeof Chart !== "undefined"
    chartManager,        \* ChartManager: chartJsAvailable, chart, and its elements
    calls                \* the calls made by the handler that ran last

dataVars == <<transactions, budgetLimits, selectedMonth, issued, everIssued>>

storeVars == <<storedTransactions, storedBudgetLimits, firstRunKey>>

formVars == <<form, errorText, inputError>>

viewVars == <<budgetLimitInput, tableRows, emptyMessageShown, tableShown, handedList,
              summary, summaryDom>>

\* What the page delivers.
pageVars == <<chartLibrary, monthSelectElement, emptyMessageElement>>

chartVars == <<pageVars, chartManager>>

\* What init has done.
controllerVars == <<initialized, listeners, dataManagerInits>>

vars == <<dataVars, storeVars, controllerVars, formVars, monthSelect, viewVars,
          chartVars, calls>>

Call(fn, arg) == <<fn, arg>>

NoErrors == [f \in Fields |-> ""]

\* The summary elements before the first rendering.
NoSummary ==
    [budgetLimit |-> 0, totalIncome |-> 0, totalExpenses |-> 0,
     remainingBudget |-> 0, status |-> "none"]

NoSummaryDom ==
    [totalIncome |-> 0, totalExpenses |-> 0, remainingBudget |-> 0,
     totalSavings |-> 0, budgetStatus |-> "none"]

\* The form as the page delivers it, and as form.reset() leaves it.
EmptyForm == FormValue(<<>>, "", <<>>, <<>>)

(***************************************************************************)
(* UIRenderer (js/ui-renderer.js).                                         *)
(***************************************************************************)
\* new Date(dateString): later dates have larger timestamps.
Timestamp(d) == IF Len(d) = 3 THEN (d[1] * 12 + d[2]) * 31 + d[3] ELSE 0

RECURSIVE InsertByDate(_, _)
\* t is put behind every row that is not older than it (the sort is stable).
InsertByDate(sorted, t) ==
    IF sorted = <<>> THEN <<t>>
    ELSE IF Timestamp(Head(sorted).date) >= Timestamp(t.date)
         THEN <<Head(sorted)>> \o InsertByDate(Tail(sorted), t)
         ELSE <<t>> \o sorted

RECURSIVE SortNewestFirst(_)
\* [...transactions].sort((a, b) => new Date(b.date) - new Date(a.date))
SortNewestFirst(list) ==
    IF list = <<>> THEN <<>>
    ELSE InsertByDate(SortNewestFirst(SubSeq(list, 1, Len(list) - 1)), list[Len(list)])

\* createTransactionRow(transaction): the row carries the id, the cells show
\* the date, the description, the type and the amount, and the delete
\* button carries the id again.
createTransactionRow(transaction) ==
    [transactionId |-> transaction.id,
     date |-> transaction.date,
     description |-> transaction.description,
     type |-> transaction.type,
     amount |-> transaction.amount,
     deleteTransactionId |-> transaction.id]

\* The rows appended for the array sorted.
RowsOf(sorted) == [i \in 1..Len(sorted) |-> createTransactionRow(sorted[i])]

\* renderTransactionList sorting the array it was handed.
renderTransactionList_SortInPlace(list) ==
    /\ tableRows' = RowsOf(SortNewestFirst(list))
    /\ emptyMessageShown' = (Len(list) = 0)
    /\ tableShown' = (Len(list) # 0)
    /\ handedList' = SortNewestFirst(list)

\* renderTransactionList(transactions)
renderTransactionList(list) ==
    /\ tableRows' = RowsOf(SortNewestFirst(list))
    /\ emptyMessageShown' = (Len(list) = 0)
    /\ tableShown' = (Len(list) # 0)
    /\ handedList' = list

\* renderSummary showing no savings below zero.
renderSummary_SavingsNotBelowZero(s) ==
    summaryDom' = [totalIncome |-> s.totalIncome,
                   totalExpenses |-> s.totalExpenses,
                   remainingBudget |-> s.remainingBudget,
                   totalSavings |-> IF s.totalIncome < s.totalExpenses THEN 0
                                    ELSE s.totalIncome - s.totalExpenses,
                   budgetStatus |-> IF s.status = "within" THEN "within" ELSE "over"]

\* renderSummary(summary), with renderBudgetStatus(summary.status)
renderSummary(s) ==
    summaryDom' = [totalIncome |-> s.totalIncome,
                   totalExpenses |-> s.totalExpenses,
                   remainingBudget |-> s.remainingBudget,
                   totalSavings |-> s.totalIncome - s.totalExpenses,
                   budgetStatus |-> IF s.status = "within" THEN "within" ELSE "over"]

\* updateBudgetLimitDisplay formatting whatever limit it is given.
BudgetLimitDisplay_AlwaysFixed(limit) == toFixed2(limit)

\* The value updateBudgetLimitDisplay(limit) writes.
BudgetLimitDisplay(limit) == IF limit > 0 THEN toFixed2(limit) ELSE <<>>

\* clearValidationErrors()
clearValidationErrors ==
    /\ errorText' = NoErrors
    /\ inputError' = {}

\* new Date().getFullYear() and new Date().getMonth(), which counts from 0.
getFullYear == Today[1]

getMonth == Today[2] - 1

\* `${year}-${String(month).padStart(2, "0")}`
MonthValue(year, month) ==
    DecimalDigits(year) \o <<"-">>
        \o (IF month < 10 THEN <<"0">> ELSE <<>>) \o DecimalDigits(month)

\* The value of the selector after updateMonthSelector(year, month); present
\* tells whether the page has the element and current is the value it had.
updateMonthSelector(present, current, year, month) ==
    IF ~present THEN current ELSE MonthValue(year, month)

\* initializeMonthSelector taking the month after the current one.
initializeMonthSelector_NextMonth(present, current) ==
    IF ~present THEN current
    ELSE updateMonthSelector(present, current, getFullYear, getMonth + 2)

\* The value of the selector after initializeMonthSelector().
initializeMonthSelector(present, current) ==
    IF ~present THEN current
    ELSE updateMonthSelector(present, current, getFullYear, getMonth + 1)

\* getSelectedMonth(): <<>> is null, else value.split("-").map(Number)
getSelectedMonth(present, value) ==
    IF ~present \/ value = <<>> THEN <<>>
    ELSE LET year == DigitRun(value)
             month == DigitRun(SubSeq(value, Len(year) + 2, Len(value)))
         IN  <<DigitsValue(year), DigitsValue(month)>>

\* The form after clearTransactionForm(): reset, then the date set to today.
ClearedForm == [EmptyForm EXCEPT !.date = Today]

(***************************************************************************)
(* ChartManager (js/chart-manager.js).  Its state is a record: the flag    *)
(* chartJsAvailable, chart (<<>> is null, else the data of the instance),  *)
(* style.display of the canvas and of the fallback panel, and the figures  *)
(* <<income, expenses>> the fallback panel shows (<<>>: none written yet). *)
(* The Chart instances are numbered as they are constructed: instance is   *)
(* the number of the one chart refers to (0 for null), constructed the     *)
(* number of instances made so far, and destroyed the instances on which   *)
(* destroy() was called.                                                   *)
(***************************************************************************)
ChartManagerAtLoad(library) ==
    [chartJsAvailable |-> library, chart |-> <<>>, canvasDisplay |-> "",
     fallbackDisplay |-> "", fallbackFigures |-> <<>>,
     instance |-> 0, constructed |-> 0, destroyed |-> {}]

\* formatCurrency of the chart: whole rupees, halves rounded away from zero.
WholeRupees(n) == IF n >= 0 THEN (n + 50) \div 100 ELSE -((50 - n) \div 100)

\* showFallback(income, expenses)
showFallback(cm, income, expenses) ==
    [cm EXCEPT !.canvasDisplay = "none",
               !.fallbackDisplay = "block",
               !.fallbackFigures = <<WholeRupees(income), WholeRupees(expenses)>>]

\* hideFallback()
hideFallback(cm) ==
    [cm EXCEPT !.fallbackDisplay = "none", !.canvasDisplay = "block"]

\* destroyChart with chart = null inside the try, behind chart.destroy().
destroyChart_ThrowEscapes(cm, thrown) ==
    IF cm.chart = <<>> THEN cm
    ELSE IF thrown THEN [cm EXCEPT !.destroyed = @ \cup {cm.instance}]
         ELSE [cm EXCEPT !.destroyed = @ \cup {cm.instance},
                         !.chart = <<>>, !.instance = 0]

\* destroyChart(); thrown tells whether chart.destroy() throws, which the
\* catch swallows before chart = null.
destroyChart(cm, thrown) ==
    IF cm.chart = <<>> THEN cm
    ELSE [cm EXCEPT !.destroyed = @ \cup {cm.instance},
                    !.chart = <<>>, !.instance = 0]

\* initializeChart(canvas): library is typeof Chart !== "undefined", canvas
\* whether the argument is an HTMLCanvasElement, destroyThrown whether
\* chart.destroy() throws and built whether getContext and new Chart return.
initializeChart(cm, library, canvas, destroyThrown, built) ==
    IF ~library
    THEN showFallback([cm EXCEPT !.chartJsAvailable = FALSE], 0, 0)
    ELSE IF ~canvas
    THEN showFallback([cm EXCEPT !.chartJsAvailable = TRUE], 0, 0)
    ELSE LET cleared == hideFallback(destroyChart([cm EXCEPT !.chartJsAvailable = TRUE],
                                                  destroyThrown))
         IN  IF built
             THEN [cleared EXCEPT !.chart = <<0, 0, 0>>,
                                  !.instance = cleared.constructed + 1,
                                  !.constructed = cleared.constructed + 1]
             ELSE showFallback(cleared, 0, 0)

\* updateChart(income, expenses, savings); thrown is "no", or the statement
\* of the try block that throws: "data" (the assignment of the data) or
\* "update" (chart.update, the data being assigned already).
updateChart(cm, income, expenses, savings, thrown) ==
    LET validIncome == IF income >= 0 THEN income ELSE 0
        validExpenses == IF expenses >= 0 THEN expenses ELSE 0
    IN  IF ~cm.chartJsAvailable \/ cm.chart = <<>>
        THEN showFallback(cm, validIncome, validExpenses)
        ELSE IF thrown = "no"
        THEN [cm EXCEPT !.chart = <<validIncome, validExpenses, savings>>]
        ELSE IF thrown = "data"
        THEN showFallback(cm, validIncome, validExpenses)
        ELSE showFallback([cm EXCEPT !.chart = <<validIncome, validExpenses, savings>>],
                          validIncome, validExpenses)

\* getChartInstance(): 0 is null.
getChartInstance(cm) == cm.instance

(***************************************************************************)
(* AppController (js/app-controller.js).                                   *)
(***************************************************************************)
\* refreshUI fetching the list of the current month.
monthTransactionsOf_CurrentMonth(list, sel) ==
    getTransactionsForMonth(list, Today[1], Today[2])

\* refreshUI: the list fetched for the selected month sel.
monthTransactionsOf(list, sel) == getTransactionsForMonth(list, sel.year, sel.month)

\* refreshUI with the two totals taken from each other's function.
summaryOf_TotalsSwapped(list, limits, sel) ==
    LET monthTransactions == monthTransactionsOf(list, sel)
        budgetLimit == getBudgetLimit(limits, sel.year, sel.month)
        totalIncome == calculateTotalExpenses(monthTransactions)
        totalExpenses == calculateTotalIncome(monthTransactions)
    IN  [budgetLimit |-> budgetLimit,
         totalIncome |-> totalIncome,
         totalExpenses |-> totalExpenses,
         remainingBudget |-> calculateRemainingBudget(budgetLimit, totalExpenses),
         status |-> getBudgetStatus(budgetLimit, totalExpenses)]

\* refreshUI handing getBudgetStatus its arguments in the other order.
summaryOf_StatusArgumentsSwapped(list, limits, sel) ==
    LET monthTransactions == monthTransactionsOf(list, sel)
        budgetLimit == getBudgetLimit(limits, sel.year, sel.month)
        totalIncome == calculateTotalIncome(monthTransactions)
        totalExpenses == calculateTotalExpenses(monthTransactions)
    IN  [budgetLimit |-> budgetLimit,
         totalIncome |-> totalIncome,
         totalExpenses |-> totalExpenses,
         remainingBudget |-> calculateRemainingBudget(budgetLimit, totalExpenses),
         status |-> getBudgetStatus(totalExpenses, budgetLimit)]

\* refreshUI showing no remaining budget below zero.
summaryOf_RemainingClamped(list, limits, sel) ==
    LET monthTransactions == monthTransactionsOf(list, sel)
        budgetLimit == getBudgetLimit(limits, sel.year, sel.month)
        totalIncome == calculateTotalIncome(monthTransactions)
        totalExpenses == calculateTotalExpenses(monthTransactions)
        remainingBudget == calculateRemainingBudget(budgetLimit, totalExpenses)
    IN  [budgetLimit |-> budgetLimit,
         totalIncome |-> totalIncome,
         totalExpenses |-> totalExpenses,
         remainingBudget |-> IF remainingBudget < 0 THEN 0 ELSE remainingBudget,
         status |-> getBudgetStatus(budgetLimit, totalExpenses)]

\* refreshUI: the summary object built for the selected month sel.
summaryOf(list, limits, sel) ==
    LET monthTransactions == monthTransactionsOf(list, sel)
        budgetLimit == getBudgetLimit(limits, sel.year, sel.month)
        totalIncome == calculateTotalIncome(monthTransactions)
        totalExpenses == calculateTotalExpenses(monthTransactions)
        remainingBudget == calculateRemainingBudget(budgetLimit, totalExpenses)
        status == getBudgetStatus(budgetLimit, totalExpenses)
    IN  [budgetLimit |-> budgetLimit,
         totalIncome |-> totalIncome,
         totalExpenses |-> totalExpenses,
         remainingBudget |-> remainingBudget,
         status |-> status]

\* refreshUI(), run on the Data Manager state (list, limits, sel) and the
\* ChartManager state cm, after the calls in before.  The list and the
\* summary are each fetched once and then handed on.
refreshUI(list, limits, sel, cm, before) ==
    \E monthTransactions \in {monthTransactionsOf(list, sel)} :
    \E record \in {summaryOf(list, limits, sel)} :
    LET savings == record.totalIncome - record.totalExpenses
    IN  /\ summary' = record
        /\ renderTransactionList(monthTransactions)
        /\ renderSummary(record)
        /\ budgetLimitInput' = BudgetLimitDisplay(record.budgetLimit)
        /\ chartManager' =
               updateChart(cm, record.totalIncome, record.totalExpenses, savings,
                           "no")
        /\ calls' = before \o
               << Call("renderTransactionList", monthTransactions),
                  Call("renderSummary", record),
                  Call("updateBudgetLimitDisplay", record.budgetLimit),
                  Call("updateChart",
                       <<record.totalIncome, record.totalExpenses, savings>>) >>

\* The events setupEventListeners adds a listener for.
Events == {"submit", "click", "change", "budgetClick", "budgetKeypress"}

NoListeners == [e \in Events |-> 0]

\* setupEventListeners(), on the listeners registered so far.  The submit
\* listener is the function handleAddTransaction, which an element holds
\* once however often it is added; the others are new functions at every
\* call.  The month selector gets one when the page has the element.
setupEventListeners(registered, selector) ==
    [e \in Events |->
        IF e = "submit" THEN 1
        ELSE IF e = "change" /\ ~selector THEN registered[e]
        ELSE registered[e] + 1]

\* init without the call of DataManager.init().
Init_AppController_NoDataManagerInit ==
    /\ ~initialized
    /\ initialized' = TRUE
    /\ UNCHANGED <<transactions, budgetLimits, dataManagerInits>>
    /\ listeners' = setupEventListeners(listeners, monthSelectElement)
    /\ firstRunKey' = TRUE
    \* initializeMonthSelector(), then getSelectedMonth() and setSelectedMonth
    /\ monthSelect' = initializeMonthSelector(monthSelectElement, monthSelect)
    /\ LET picked == getSelectedMonth(monthSelectElement, monthSelect')
       IN  /\ selectedMonth' =
                  IF picked = <<>> THEN selectedMonth
                  ELSE setSelectedMonth(selectedMonth, picked[1], picked[2])
           /\ refreshUI(transactions', budgetLimits', selectedMonth',
                        initializeChart(chartManager, chartLibrary, TRUE, FALSE, TRUE),
                        << Call("loadSeedDataIfFirstRun", <<>>),
                           Call("initializeMonthSelector", <<>>),
                           Call("initializeChart", <<>>),
                           Call("setupEventListeners", <<>>) >>
                        \o (IF picked = <<>> THEN <<>>
                            ELSE << Call("setSelectedMonth", picked) >>))
    /\ UNCHANGED <<issued, everIssued, storedTransactions, storedBudgetLimits,
                   formVars, pageVars>>

\* AppController.init(), on DOMContentLoaded, running to its end: the page
\* has the chart canvas, and new Chart and chart.destroy do not throw.
Init_AppController ==
    /\ ~initialized
    /\ initialized' = TRUE
    \* DataManager.init(): the collection and the limits are read from the store
    /\ transactions' = loadTransactions(storedTransactions)
    /\ budgetLimits' = loadBudgetLimits(storedBudgetLimits)
    /\ dataManagerInits' = dataManagerInits + 1
    /\ listeners' = setupEventListeners(listeners, monthSelectElement)
    /\ firstRunKey' = TRUE
    \* initializeMonthSelector(), then getSelectedMonth() and setSelectedMonth
    /\ monthSelect' = initializeMonthSelector(monthSelectElement, monthSelect)
    /\ LET picked == getSelectedMonth(monthSelectElement, monthSelect')
       IN  /\ selectedMonth' =
                  IF picked = <<>> THEN selectedMonth
                  ELSE setSelectedMonth(selectedMonth, picked[1], picked[2])
           /\ refreshUI(transactions', budgetLimits', selectedMonth',
                        initializeChart(chartManager, chartLibrary, TRUE, FALSE, TRUE),
                        << Call("DataManager.init", <<>>),
                           Call("initializeMonthSelector", <<>>),
                           Call("initializeChart", <<>>),
                           Call("setupEventListeners", <<>>) >>
                        \o (IF picked = <<>> THEN <<>>
                            ELSE << Call("setSelectedMonth", picked) >>))
    /\ UNCHANGED <<issued, everIssued, storedTransactions, storedBudgetLimits,
                   formVars, pageVars>>

\* handleAddTransaction with the amount read by parseInt.
transactionOf_ParseInt(f) ==
    [date |-> f.date,
     type |-> f.type,
     description |-> Trim(f.description),
     amount |-> parseInt(f.amount)[2]]

\* handleAddTransaction: the transaction built from the validated form values f.
transactionOf(f) ==
    [date |-> f.date,
     type |-> f.type,
     description |-> Trim(f.description),
     amount |-> parseFloat(f.amount)[2]]

\* validateTransaction and transactionOf on the submissions of the model,
\* each computed once.
validationOf == [f \in FormInputs \cup EveryForm |-> validateTransaction(f)]

transactionFrom == [f \in FormInputs \cup EveryForm |-> transactionOf(f)]

\* handleAddTransaction calling addTransaction twice for one submission.
submittedCollection_Twice(list, f, n) ==
    addTransaction(addTransaction(list, transactionFrom[f], n), transactionFrom[f], n + 1)

\* handleAddTransaction: the collection after DataManager.addTransaction(transaction).
submittedCollection(list, f, n) == addTransaction(list, transactionFrom[f], n)

\* handleAddTransaction showing the first error only.
showValidationErrors_FirstOnly(f) ==
    LET errors == SubSeq(validationOf[f].errors, 1, 1)
        shown == {errors[i].field : i \in 1..Len(errors)}
    IN  /\ form' = f
        /\ errorText' = [fld \in Fields |->
                            IF fld \in shown THEN errors[1].message ELSE ""]
        /\ inputError' = shown
        /\ calls' = << Call("clearValidationErrors", <<>>),
                       Call("validateTransaction", <<>>) >>
                    \o [i \in 1..Len(errors) |-> Call("showValidationError", errors[i])]
        /\ UNCHANGED <<dataVars, storeVars, viewVars, chartVars>>

\* handleAddTransaction without the clearValidationErrors() it starts with.
showValidationErrors_KeepEarlier(f) ==
    LET errors == validationOf[f].errors
        shown == {errors[i].field : i \in 1..Len(errors)}
        messageOf(fld) ==
            errors[CHOOSE j \in 1..Len(errors) : errors[j].field = fld].message
    IN  /\ form' = f
        /\ errorText' = [fld \in Fields |->
                            IF fld \in shown THEN messageOf(fld) ELSE errorText[fld]]
        /\ inputError' = inputError \cup shown
        /\ calls' = << Call("validateTransaction", <<>>) >>
                    \o [i \in 1..Len(errors) |-> Call("showValidationError", errors[i])]
        /\ UNCHANGED <<dataVars, storeVars, viewVars, chartVars>>

\* handleAddTransaction: the branch taken when validation.isValid is false.
showValidationErrors(f) ==
    LET errors == validationOf[f].errors
        shown == {errors[i].field : i \in 1..Len(errors)}
        messageOf(fld) ==
            errors[CHOOSE j \in 1..Len(errors) : errors[j].field = fld].message
    IN  /\ form' = f
        /\ errorText' = [fld \in Fields |-> IF fld \in shown THEN messageOf(fld) ELSE ""]
        /\ inputError' = shown
        /\ calls' = << Call("clearValidationErrors", <<>>),
                       Call("validateTransaction", <<>>) >>
                    \o [i \in 1..Len(errors) |-> Call("showValidationError", errors[i])]
        /\ UNCHANGED <<dataVars, storeVars, viewVars, chartVars>>

\* handleAddTransaction: what follows the validation when it passes.
addAndRefresh(f) ==
    /\ issued < MaxIssued
    /\ transactions' = submittedCollection(transactions, f, issued)
    /\ issued' = issued + 1
    /\ everIssued' = everIssued \cup {transactions'[Len(transactions')].id}
    /\ storedTransactions' = saveTransactions(transactions')
    /\ form' = ClearedForm
    /\ clearValidationErrors
    /\ refreshUI(transactions', budgetLimits, selectedMonth, chartManager,
                 << Call("clearValidationErrors", <<>>),
                    Call("validateTransaction", <<>>),
                    Call("addTransaction", transactionFrom[f]),
                    Call("clearTransactionForm", <<>>) >>)
    /\ UNCHANGED <<budgetLimits, selectedMonth, storedBudgetLimits, firstRunKey,
                   pageVars>>

\* handleAddTransaction without the return that follows the error display.
handleAddTransaction_NoReturn(f) ==
    /\ initialized
    /\ addAndRefresh(f)
    /\ UNCHANGED <<controllerVars, monthSelect>>

\* handleAddTransaction(event): the form is submitted holding the values f
handleAddTransaction(f) ==
    /\ initialized
    /\ IF ~validationOf[f].isValid
       THEN showValidationErrors(f)
       ELSE addAndRefresh(f)
    /\ UNCHANGED <<controllerVars, monthSelect>>

\* handleDeleteTransaction refreshing whatever deleteTransaction returns.
handleDeleteTransaction_AlwaysRefresh(id) ==
    /\ initialized
    /\ transactions' = deleteTransaction(transactions, id)
    /\ storedTransactions' = saveTransactions(transactions')
    /\ refreshUI(transactions', budgetLimits, selectedMonth, chartManager,
                 << Call("deleteTransaction", <<>>) >>)
    /\ UNCHANGED <<budgetLimits, selectedMonth, issued, everIssued,
                   storedBudgetLimits, firstRunKey, pageVars>>
    /\ UNCHANGED <<controllerVars, formVars, monthSelect>>

\* handleDeleteTransaction(id)
handleDeleteTransaction(id) ==
    /\ initialized
    /\ IF hasTransaction(transactions, id)
       THEN /\ transactions' = deleteTransaction(transactions, id)
            /\ storedTransactions' = saveTransactions(transactions')
            /\ refreshUI(transactions', budgetLimits, selectedMonth, chartManager,
                         << Call("deleteTransaction", <<>>) >>)
            /\ UNCHANGED <<budgetLimits, selectedMonth, issued, everIssued,
                           storedBudgetLimits, firstRunKey, pageVars>>
       ELSE /\ calls' = << Call("deleteTransaction", <<>>) >>
            /\ UNCHANGED <<dataVars, storeVars, viewVars, chartVars>>
    /\ UNCHANGED <<controllerVars, formVars, monthSelect>>

\* The click listener of the transaction list: the delete button of row i.
deleteButtonClick(i) ==
    /\ i \in 1..Len(tableRows)
    /\ handleDeleteTransaction(tableRows[i].deleteTransactionId)

\* parseMonthValue(value): <<>> is null, else the year and month that
\* parseInt reads on the two sides of the one "-"
parseMonthValue(value) ==
    LET dashes == {i \in 1..Len(value) : value[i] = "-"}
    IN  IF value = <<>> \/ Cardinality(dashes) # 1 THEN <<>>
        ELSE LET dash == CHOOSE i \in dashes : TRUE
                 year == DigitRun(SubSeq(value, 1, dash - 1))
                 month == DigitRun(SubSeq(value, dash + 1, Len(value)))
             IN  IF year = <<>> \/ month = <<>> THEN <<>>
                 ELSE IF DigitsValue(month) < 1 \/ DigitsValue(month) > 12 THEN <<>>
                      ELSE <<DigitsValue(year), DigitsValue(month)>>

\* handleMonthChange without the refreshUI() that follows setSelectedMonth.
handleMonthChange_NoRefresh(year, month) ==
    /\ initialized
    /\ selectedMonth' = setSelectedMonth(selectedMonth, year, month)
    /\ calls' = << Call("setSelectedMonth", <<year, month>>) >>
    /\ UNCHANGED <<transactions, budgetLimits, issued, everIssued, storeVars,
                   controllerVars, formVars, viewVars, chartVars>>

\* handleMonthChange(year, month)
handleMonthChange(year, month) ==
    /\ initialized
    /\ selectedMonth' = setSelectedMonth(selectedMonth, year, month)
    /\ refreshUI(transactions, budgetLimits, selectedMonth', chartManager,
                 << Call("setSelectedMonth", <<year, month>>) >>)
    /\ UNCHANGED <<transactions, budgetLimits, issued, everIssued, storeVars,
                   controllerVars, formVars, pageVars>>

\* The change listener of the month selector, the user having picked the
\* month value.
monthSelectChange(value) ==
    LET text == MonthValue(value[1], value[2])
        parsed == parseMonthValue(text)
    IN  /\ monthSelectElement
        /\ parsed # <<>>
        /\ monthSelect' = text
        /\ handleMonthChange(parsed[1], parsed[2])

\* handleBudgetLimitChange saving the limit under the current month.
handleBudgetLimitChange_CurrentMonth(limit) ==
    /\ initialized
    /\ IF isNaN(limit) \/ LeZero(limit)
       THEN /\ budgetLimitInput' =
                   BudgetLimitDisplay(getBudgetLimit(budgetLimits, selectedMonth.year,
                                                     selectedMonth.month))
            /\ calls' = << Call("updateBudgetLimitDisplay",
                                getBudgetLimit(budgetLimits, selectedMonth.year,
                                               selectedMonth.month)) >>
            /\ UNCHANGED <<dataVars, storeVars, tableRows, emptyMessageShown, tableShown, handedList,
                           summary, summaryDom, chartVars>>
       ELSE /\ budgetLimits' = setBudgetLimit(budgetLimits, Today[1], Today[2], limit)
            /\ storedBudgetLimits' = saveBudgetLimits(budgetLimits')
            /\ refreshUI(transactions, budgetLimits', selectedMonth, chartManager,
                         << Call("setBudgetLimit", limit) >>)
            /\ UNCHANGED <<transactions, selectedMonth, issued, everIssued,
                           storedTransactions, firstRunKey, pageVars>>
    /\ UNCHANGED <<controllerVars, formVars, monthSelect>>

\* handleBudgetLimitChange(limit)
handleBudgetLimitChange(limit) ==
    /\ initialized
    /\ IF isNaN(limit) \/ LeZero(limit)
       THEN /\ budgetLimitInput' =
                   BudgetLimitDisplay(getBudgetLimit(budgetLimits, selectedMonth.year,
                                                     selectedMonth.month))
            /\ calls' = << Call("updateBudgetLimitDisplay",
                                getBudgetLimit(budgetLimits, selectedMonth.year,
                                               selectedMonth.month)) >>
            /\ UNCHANGED <<dataVars, storeVars, tableRows, emptyMessageShown, tableShown, handedList,
                           summary, summaryDom, chartVars>>
       ELSE /\ budgetLimits' = setBudgetLimit(budgetLimits, selectedMonth.year,
                                              selectedMonth.month, limit)
            /\ storedBudgetLimits' = saveBudgetLimits(budgetLimits')
            /\ refreshUI(transactions, budgetLimits', selectedMonth, chartManager,
                         << Call("setBudgetLimit", limit) >>)
            /\ UNCHANGED <<transactions, selectedMonth, issued, everIssued,
                           storedTransactions, firstRunKey, pageVars>>
    /\ UNCHANGED <<controllerVars, formVars, monthSelect>>

\* The listeners refusing a bad limit themselves, the input left as typed.
budgetLimitListener_NoReset(text) ==
    IF isNaN(parseFloat(text)) \/ LeZero(parseFloat(text))
    THEN /\ initialized
         /\ budgetLimitInput' = text
         /\ calls' = <<>>
         /\ UNCHANGED <<dataVars, storeVars, tableRows, emptyMessageShown, tableShown, handedList,
                        summary, summaryDom, chartVars>>
         /\ UNCHANGED <<controllerVars, formVars, monthSelect>>
    ELSE handleBudgetLimitChange(parseFloat(text))

\* The click listener of the Set button and the Enter-key listener of the
\* budget-limit input, the input holding text.
budgetLimitListener(text) == handleBudgetLimitChange(parseFloat(text))

\* The page right after its scripts have run, before DOMContentLoaded; selector
\* tells whether it has the month selector element.
PageAtLoad(selector, emptyMessage) ==
    /\ transactions = <<>>
    /\ budgetLimits = <<>>
    /\ selectedMonth = [year |-> Today[1], month |-> Today[2]]
    /\ issued = 0
    /\ everIssued = {}
    /\ storedTransactions = <<>>
    /\ storedBudgetLimits = <<>>
    /\ firstRunKey = FALSE
    /\ initialized = FALSE
    /\ listeners = NoListeners
    /\ dataManagerInits = 0
    /\ form = EmptyForm
    /\ errorText = NoErrors
    /\ inputError = {}
    /\ monthSelectElement = selector
    /\ emptyMessageElement = emptyMessage
    /\ monthSelect = <<>>
    /\ budgetLimitInput = <<>>
    /\ tableRows = <<>>
    /\ emptyMessageShown = FALSE
    /\ tableShown = TRUE
    /\ handedList = <<>>
    /\ summary = NoSummary
    /\ summaryDom = NoSummaryDom
    /\ chartLibrary = TRUE
    /\ chartManager = ChartManagerAtLoad(chartLibrary)
    /\ calls = <<>>

Init == PageAtLoad(TRUE, TRUE)

\* The page is closed and opened again: the store is kept, everything else
\* is as the scripts leave it when they have run.
Reload ==
    /\ initialized
    /\ transactions' = <<>>
    /\ budgetLimits' = <<>>
    /\ selectedMonth' = [year |-> Today[1], month |-> Today[2]]
    /\ initialized' = FALSE
    /\ listeners' = NoListeners
    /\ dataManagerInits' = 0
    /\ form' = EmptyForm
    /\ errorText' = NoErrors
    /\ inputError' = {}
    /\ monthSelect' = <<>>
    /\ budgetLimitInput' = <<>>
    /\ tableRows' = <<>>
    /\ emptyMessageShown' = FALSE
    /\ tableShown' = TRUE
    /\ handedList' = <<>>
    /\ summary' = NoSummary
    /\ summaryDom' = NoSummaryDom
    /\ chartManager' = ChartManagerAtLoad(chartLibrary)
    /\ calls' = <<>>
    /\ UNCHANGED <<issued, everIssued, storeVars, pageVars>>

\* The ids handed to handleDeleteTransaction: every id the collection can
\* hold, and one it never holds.
IdInputs == {ToString(n) : n \in 1..MaxIssued} \cup {"none"}

Next ==
    \/ Init_AppController
    \/ \E f \in FormInputs : handleAddTransaction(f)
    \/ \E id \in IdInputs : handleDeleteTransaction(id)
    \/ \E i \in 1..MaxIssued : deleteButtonClick(i)
    \/ \E value \in MonthChoices : monthSelectChange(value)
    \/ \E limit \in LimitInputs : handleBudgetLimitChange(limit)
    \/ \E text \in BudgetTexts : budgetLimitListener(text)

Spec == Init /\ [][Next]_vars

\* The form alone: the page is loaded and the form is submitted, filled in
\* every way.
NextForm ==
    \/ Init_AppController
    \/ \E f \in EveryForm : handleAddTransaction(f)

SpecForm == Init /\ [][NextForm]_vars

\* The submissions made over several sessions: an expense of the current
\* month, one with a fraction in the month after it, one of the year before,
\* and an income whose description and amount are stored changed.
SessionForms ==
    {FormValue(<<2025, 1, 31>>, "expense", <<"a">>, <<"1">>),
     FormValue(<<2025, 2, 1>>, "expense", <<"a">>, <<"0", ".", "5">>),
     FormValue(<<2024, 1, 31>>, "expense", <<"a">>, <<"2">>),
     FormValue(<<2025, 1, 31>>, "income", <<" ", "a", " ">>, <<"1", "x">>)}

\* Sessions: the page, with or without the month selector, is used, closed
\* and opened again.
InitSessions == \E selector \in BOOLEAN : PageAtLoad(selector, TRUE)

NextSessions ==
    \/ Init_AppController
    \/ Reload
    \/ \E f \in SessionForms : handleAddTransaction(f)
    \/ \E i \in 1..MaxIssued : deleteButtonClick(i)
    \/ \E value \in MonthChoices : monthSelectChange(value)
    \/ \E text \in BudgetTexts : budgetLimitListener(text)

SpecSessions == InitSessions /\ [][NextSessions]_vars

\* Longest array handed to renderTransactionList on its own.
MaxRendered == 4

\* Transactions to render: two of one day, an earlier day of the month, the
\* last day of the year before and the first day of the month after.
RenderPool ==
    {[id |-> "1", date |-> <<2025, 1, 20>>, type |-> "expense",
      description |-> <<"a">>, amount |-> 100],
     [id |-> "2", date |-> <<2025, 1, 20>>, type |-> "income",
      description |-> <<"a">>, amount |-> 200],
     [id |-> "3", date |-> <<2025, 1, 5>>, type |-> "expense",
      description |-> <<"a">>, amount |-> 50],
     [id |-> "4", date |-> <<2024, 12, 31>>, type |-> "expense",
      description |-> <<"a">>, amount |-> 100],
     [id |-> "5", date |-> <<2025, 2, 1>>, type |-> "income",
      description |-> <<"a">>, amount |-> 100]}

\* The arrays of at most MaxRendered of them, in every order.
RenderLists ==
    {list \in UNION {[1..n -> RenderPool] : n \in 0..MaxRendered} :
        \A i, j \in 1..Len(list) : list[i] = list[j] => i = j}

\* UIRenderer.renderTransactionList(list) called on its own.
renderList(list) ==
    /\ renderTransactionList(list)
    /\ calls' = << Call("renderTransactionList", list) >>
    /\ UNCHANGED <<dataVars, storeVars, controllerVars, formVars, monthSelect,
                   budgetLimitInput, summary, summaryDom, chartVars>>

NextRender == \E list \in RenderLists : renderList(list)

SpecRender == Init /\ [][NextRender]_vars

\* Number of Chart instances constructed before initializeChart stops being
\* called.
MaxConstructed == 3

\* The income and the expenses handed to updateChart, in hundredths.
ChartFigures == {-100, 0, 100, 250}

\* Where the try block of updateChart throws.
UpdateThrows == {"no", "data", "update"}

\* ChartManager.initializeChart(canvas) called on its own, Chart.js being
\* loaded or not at that time.
initializeChartCall(library, canvas, destroyThrown, built) ==
    /\ chartManager.constructed < MaxConstructed
    /\ chartLibrary' = library
    /\ chartManager' = initializeChart(chartManager, library, canvas, destroyThrown, built)
    /\ calls' = << Call("initializeChart", <<>>) >>
    /\ UNCHANGED <<dataVars, storeVars, controllerVars, formVars, monthSelect,
                   viewVars, monthSelectElement, emptyMessageElement>>

\* ChartManager.updateChart(income, expenses, income - expenses) called on its own.
updateChartCall(income, expenses, thrown) ==
    /\ chartManager' = updateChart(chartManager, income, expenses, income - expenses,
                                   thrown)
    /\ calls' = << Call("updateChart", <<income, expenses, income - expenses>>) >>
    /\ UNCHANGED <<dataVars, storeVars, controllerVars, formVars, monthSelect,
                   viewVars, pageVars>>

\* ChartManager.destroyChart() called on its own.
destroyChartCall(thrown) ==
    /\ chartManager' = destroyChart(chartManager, thrown)
    /\ calls' = << Call("destroyChart", <<>>) >>
    /\ UNCHANGED <<dataVars, storeVars, controllerVars, formVars, monthSelect,
                   viewVars, pageVars>>

NextChart ==
    \/ \E library, canvas, destroyThrown, built \in BOOLEAN :
          initializeChartCall(library, canvas, destroyThrown, built)
    \/ \E income, expenses \in ChartFigures : \E thrown \in UpdateThrows :
          updateChartCall(income, expenses, thrown)
    \/ \E thrown \in BOOLEAN : destroyChartCall(thrown)

SpecChart == Init /\ [][NextChart]_vars

\* The values the month selector is changed to: two months, the cleared
\* value, a month that does not exist and a year alone.
MonthTexts ==
    {MonthValue(value[1], value[2]) : value \in MonthChoices}
        \cup {<<>>, <<"2", "0", "2", "5", "-", "1", "3">>, <<"2", "0", "2", "5">>}

\* The months AppController.handleMonthChange is called with from outside.
MonthArguments == MonthChoices \cup {<<2025, 2>>, <<2025, 13>>}

\* The change listener of the month selector, whatever value the selector
\* was given: handleMonthChange runs only for a value that parses.
monthSelectListener(text) ==
    LET parsed == parseMonthValue(text)
    IN  /\ initialized
        /\ monthSelectElement
        /\ monthSelect' = text
        /\ IF parsed = <<>>
           THEN /\ calls' = << Call("parseMonthValue", text) >>
                /\ UNCHANGED <<dataVars, storeVars, controllerVars, formVars, viewVars,
                               chartVars>>
           ELSE handleMonthChange(parsed[1], parsed[2])

\* AppController.handleMonthChange(year, month) called through the public API.
handleMonthChangeCall(year, month) ==
    /\ handleMonthChange(year, month)
    /\ UNCHANGED monthSelect

NextMonths ==
    \/ Init_AppController
    \/ \E text \in MonthTexts : monthSelectListener(text)
    \/ \E value \in MonthArguments : handleMonthChangeCall(value[1], value[2])
    \/ \E f \in SessionForms : handleAddTransaction(f)
    \/ \E text \in BudgetTexts : budgetLimitListener(text)

SpecMonths == Init /\ [][NextMonths]_vars

\* Number of times DataManager.init() runs before init stops being called
\* on a page that is not initialized.
MaxInits == 3

\* AppController.init() called at any time.  An initialized controller
\* warns and returns.  Otherwise init runs until a statement throws:
\* storageThrows tells whether localStorage does in loadSeedDataIfFirstRun,
\* and on a page without the empty-list message renderTransactionList
\* does, in refreshUI, when it has emptied the table body; initialized is
\* set by the last statement only.
initCall(storageThrows) ==
    IF initialized
    THEN /\ calls' = << Call("console.warn", <<>>) >>
         /\ UNCHANGED <<dataVars, storeVars, controllerVars, formVars, monthSelect,
                        viewVars, chartVars>>
    ELSE /\ dataManagerInits < MaxInits
         /\ IF storageThrows
            THEN /\ transactions' = loadTransactions(storedTransactions)
                 /\ budgetLimits' = loadBudgetLimits(storedBudgetLimits)
                 /\ dataManagerInits' = dataManagerInits + 1
                 /\ calls' = << Call("DataManager.init", <<>>),
                                Call("loadSeedDataIfFirstRun", <<>>) >>
                 /\ UNCHANGED <<selectedMonth, issued, everIssued, storeVars,
                                initialized, listeners, formVars, monthSelect,
                                viewVars, chartVars>>
            ELSE IF ~emptyMessageElement
            THEN /\ transactions' = loadTransactions(storedTransactions)
                 /\ budgetLimits' = loadBudgetLimits(storedBudgetLimits)
                 /\ dataManagerInits' = dataManagerInits + 1
                 /\ firstRunKey' = TRUE
                 /\ monthSelect' = initializeMonthSelector(monthSelectElement, monthSelect)
                 /\ chartManager' =
                        initializeChart(chartManager, chartLibrary, TRUE, FALSE, TRUE)
                 /\ listeners' = setupEventListeners(listeners, monthSelectElement)
                 /\ \E picked \in {getSelectedMonth(monthSelectElement, monthSelect')} :
                       /\ selectedMonth' =
                              IF picked = <<>> THEN selectedMonth
                              ELSE setSelectedMonth(selectedMonth, picked[1], picked[2])
                       /\ summary' = summaryOf(transactions', budgetLimits', selectedMonth')
                       /\ tableRows' = <<>>
                       /\ handedList' = monthTransactionsOf(transactions', selectedMonth')
                       /\ calls' =
                              << Call("DataManager.init", <<>>),
                                 Call("initializeMonthSelector", <<>>),
                                 Call("initializeChart", <<>>),
                                 Call("setupEventListeners", <<>>) >>
                              \o (IF picked = <<>> THEN <<>>
                                  ELSE << Call("setSelectedMonth", picked) >>)
                              \o << Call("renderTransactionList", handedList') >>
                 /\ UNCHANGED <<initialized, issued, everIssued, storedTransactions,
                                storedBudgetLimits, formVars, pageVars,
                                budgetLimitInput, emptyMessageShown, tableShown,
                                summaryDom>>
            ELSE Init_AppController

\* The page, with or without the empty-list message.
InitInit == \E emptyMessage \in BOOLEAN : PageAtLoad(TRUE, emptyMessage)

NextInit ==
    \/ \E storageThrows \in BOOLEAN : initCall(storageThrows)
    \/ \E f \in SessionForms : handleAddTransaction(f)
    \/ \E i \in 1..MaxIssued : deleteButtonClick(i)
    \/ \E value \in MonthChoices : monthSelectChange(value)
    \/ \E text \in BudgetTexts : budgetLimitListener(text)

SpecInit == InitInit /\ [][NextInit]_vars

(***************************************************************************)
(* Vocabulary of the properties.                                           *)
(***************************************************************************)
\* The functions the handler that ran last has called, in order.
Called == [k \in 1..Len(calls) |-> calls[k][1]]

HasCalled(fn) == \E k \in 1..Len(calls) : calls[k][1] = fn

\* The argument of the first call of fn by the handler that ran last.
ArgumentOf(fn) == calls[CHOOSE k \in 1..Len(calls) : calls[k][1] = fn][2]

\* The submissions validateTransaction reports isValid = false for, and the others.
RejectedForms == {f \in FormInputs : ~validateTransaction(f).isValid}

AcceptedForms == {f \in FormInputs : validateTransaction(f).isValid}

Ids(list) == {list[i].id : i \in 1..Len(list)}

Entries(list) == {list[i] : i \in 1..Len(list)}

\* The date string t.date has the year and month components of sel.
InMonth(t, sel) == t.date[1] = sel.year /\ t.date[2] = sel.month

RECURSIVE SumAt(_, _)
\* The sum of the amounts at the positions I of list.
SumAt(list, I) ==
    IF I = {} THEN 0
    ELSE LET i == CHOOSE j \in I : TRUE
         IN  list[i].amount + SumAt(list, I \ {i})

\* The expenses entered for the selected month, and the limit stored for it.
SelectedMonthExpenses ==
    SumAt(transactions,
          {i \in 1..Len(transactions) :
              InMonth(transactions[i], selectedMonth) /\ transactions[i].type = "expense"})

SelectedMonthLimit ==
    IF <<selectedMonth.year, selectedMonth.month>> \in DOMAIN budgetLimits
    THEN budgetLimits[<<selectedMonth.year, selectedMonth.month>>]
    ELSE 0

(***************************************************************************)
(* C1.  A submission that validateTransaction rejects does not reach       *)
(* addTransaction: the collection, the limits, the selected month and the  *)
(* store are unchanged, the form keeps the submitted values, and the       *)
(* handler ends by showing the errors.                                     *)
(***************************************************************************)
C1_InvalidSubmissionChangesNothing ==
    [][HasCalled("validateTransaction")'
       => \A f \in RejectedForms :
             handleAddTransaction(f)
             => /\ UNCHANGED <<transactions, budgetLimits, selectedMonth, issued,
                               storedTransactions, storedBudgetLimits>>
                /\ form' = f
                /\ ~HasCalled("addTransaction")'
                /\ ~HasCalled("clearTransactionForm")'
                /\ Called'[Len(calls')] = "showValidationError"]_vars

\* A rejected submission has just been handled while the collection holds an entry.
C1_Witness ==
    /\ HasCalled("showValidationError")
    /\ form \in InvalidForms
    /\ transactions # <<>>

(***************************************************************************)
(* C2.  Every stored transaction has an amount greater than zero.          *)
(***************************************************************************)
C2_StoredAmountsPositive ==
    \A i \in 1..Len(transactions) : transactions[i].amount > 0

\* An amount below one rupee is stored and a later amount of zero was refused.
C2_Witness ==
    /\ \E i \in 1..Len(transactions) : transactions[i].amount = 50
    /\ form.amount = <<"0">>
    /\ errorText["amount"] # ""

(***************************************************************************)
(* C3.  Every stored budget limit is a strictly positive finite number,    *)
(* and every value the controller hands to setBudgetLimit is one.          *)
(***************************************************************************)
C3_OnlyPositiveFiniteLimits ==
    /\ \A k \in DOMAIN budgetLimits : budgetLimits[k] > 0
    /\ \A k \in 1..Len(calls) :
          calls[k][1] = "setBudgetLimit"
          => isFinite(calls[k][2]) /\ GtZero(calls[k][2])

(***************************************************************************)
(* C4.  No two transactions of the collection share an id, and an id that  *)
(* enters the collection was never generated before, whether or not its    *)
(* earlier holder has been deleted.                                        *)
(***************************************************************************)
C4_IdsUniqueForLifetime ==
    /\ [](\A i, j \in 1..Len(transactions) :
             transactions[i].id = transactions[j].id => i = j)
    /\ [][\A id \in Ids(transactions') \ Ids(transactions) : id \notin everIssued]_vars

\* A transaction was added after an earlier one had been deleted.
C4_Witness ==
    /\ HasCalled("addTransaction")
    /\ \E id \in everIssued : id \notin Ids(transactions)

(***************************************************************************)
(* C5.  A valid submission appends exactly one entry, with an id the       *)
(* collection did not hold, and leaves the others as they were; the list   *)
(* of the new entry's month holds exactly one entry with its id.           *)
(***************************************************************************)
C5_ValidSubmissionAddsOne ==
    [][HasCalled("validateTransaction")'
       => \A f \in AcceptedForms :
             handleAddTransaction(f)
             => LET n == Len(transactions)
                    new == transactions'[n + 1]
                    ofMonth == getTransactionsForMonth(transactions', new.date[1],
                                                       new.date[2])
                IN  /\ Len(transactions') = n + 1
                    /\ SubSeq(transactions', 1, n) = transactions
                    /\ new.id \notin Ids(transactions)
                    /\ new.date = f.date /\ new.type = f.type
                    /\ Cardinality({i \in 1..Len(ofMonth) : ofMonth[i].id = new.id}) = 1
                    /\ loadTransactions(storedTransactions') = transactions']_vars

\* A valid submission has just been added to a collection that held an entry.
C5_Witness ==
    /\ HasCalled("addTransaction")
    /\ Len(transactions) = 2

(***************************************************************************)
(* C6.  Deleting an id the collection holds removes that one entry and     *)
(* leaves the others as they were, and the view is rendered again;         *)
(* deleting an id it does not hold changes nothing and renders nothing.    *)
(***************************************************************************)
C6_DeleteRemovesExactlyOne ==
    [][\A id \in IdInputs :
          handleDeleteTransaction(id)
          => IF id \in Ids(transactions)
             THEN /\ Len(transactions') = Len(transactions) - 1
                  /\ Entries(transactions') =
                        {t \in Entries(transactions) : t.id # id}
                  /\ \A i, j \in 1..Len(transactions') :
                        i < j => \E a, b \in 1..Len(transactions) :
                                    /\ a < b
                                    /\ transactions[a] = transactions'[i]
                                    /\ transactions[b] = transactions'[j]
                  /\ loadTransactions(storedTransactions') = transactions'
                  /\ HasCalled("renderTransactionList")'
             ELSE /\ UNCHANGED <<dataVars, storeVars, viewVars, chartVars, formVars>>
                  /\ Called' = <<"deleteTransaction">>]_vars

\* An id the collection does not hold was just asked to be deleted, while
\* the collection holds entries.
C6_Witness ==
    /\ Called = <<"deleteTransaction">>
    /\ Len(transactions) = 2

(***************************************************************************)
(* C7.  The list refreshUI hands to the renderer holds the stored          *)
(* transactions dated in the selected year and month, each once, and       *)
(* nothing else.                                                           *)
(***************************************************************************)
C7_RenderedListIsSelectedMonth ==
    HasCalled("renderTransactionList")
    => LET handed == ArgumentOf("renderTransactionList")
       IN  /\ Entries(handed) =
                 {t \in Entries(transactions) : InMonth(t, selectedMonth)}
           /\ Len(handed) = Cardinality(Entries(handed))

\* January 2024 is shown, it has an entry, and January 2025 has one too.
C7_Witness ==
    /\ HasCalled("renderTransactionList")
    /\ selectedMonth = [year |-> 2024, month |-> 1]
    /\ Len(ArgumentOf("renderTransactionList")) = 1
    /\ \E i \in 1..Len(transactions) : transactions[i].date = <<2025, 1, 31>>

(***************************************************************************)
(* C8.  For the list refreshUI totals, the total income is the sum of the  *)
(* amounts of its income entries, the total expenses the sum of those of   *)
(* its expense entries, the two add up to the sum of all its amounts, and  *)
(* both are 0 for the empty list.                                          *)
(***************************************************************************)
C8_TotalsSumTheirOwnType ==
    HasCalled("renderSummary")
    => LET list == ArgumentOf("renderTransactionList")
           record == ArgumentOf("renderSummary")
           ofType(type) == {i \in 1..Len(list) : list[i].type = type}
       IN  /\ record.totalIncome = SumAt(list, ofType("income"))
           /\ record.totalExpenses = SumAt(list, ofType("expense"))
           /\ record.totalIncome + record.totalExpenses = SumAt(list, 1..Len(list))
           /\ list = <<>> => record.totalIncome = 0 /\ record.totalExpenses = 0

\* A list with an income and an expense of different amounts has been totalled.
C8_Witness ==
    /\ HasCalled("renderSummary")
    /\ ArgumentOf("renderSummary").totalIncome = 100
    /\ ArgumentOf("renderSummary").totalExpenses = 200

(***************************************************************************)
(* C9.  The status of the summary refreshUI builds is "over" exactly when  *)
(* the selected month's expenses exceed its limit, and "within" otherwise. *)
(***************************************************************************)
C9_StatusOverIffExpensesExceedLimit ==
    HasCalled("renderSummary")
    => LET record == ArgumentOf("renderSummary")
       IN  /\ record.status \in {"over", "within"}
           /\ record.status = "over" <=> SelectedMonthExpenses > SelectedMonthLimit

\* The expenses of the selected month equal its limit.
C9_Witness ==
    /\ HasCalled("renderSummary")
    /\ SelectedMonthLimit = 200
    /\ SelectedMonthExpenses = 200
    /\ ArgumentOf("renderSummary").status = "within"

(***************************************************************************)
(* C10.  The remaining budget of the summary refreshUI builds is the       *)
(* selected month's limit minus its expenses, below zero included.         *)
(***************************************************************************)
C10_RemainingIsLimitMinusExpenses ==
    HasCalled("renderSummary")
    => ArgumentOf("renderSummary").remainingBudget =
           SelectedMonthLimit - SelectedMonthExpenses

\* The expenses of the selected month exceed the limit set for it.
C10_Witness ==
    /\ HasCalled("renderSummary")
    /\ SelectedMonthLimit = 200
    /\ ArgumentOf("renderSummary").remainingBudget = -100

(***************************************************************************)
(* C11.  While the selected month has no stored limit, the summary         *)
(* refreshUI builds has the budget limit 0, its status is "over" exactly   *)
(* when the month holds an expense and "within" when it holds none, the    *)
(* status element shows that status, and the budget-limit input is empty.  *)
(***************************************************************************)
C11_UnsetLimitReadsZero ==
    (/\ HasCalled("renderSummary")
     /\ <<selectedMonth.year, selectedMonth.month>> \notin DOMAIN budgetLimits)
    => LET record == ArgumentOf("renderSummary")
       IN  /\ record.budgetLimit = 0
           /\ record.status = "over" <=> SelectedMonthExpenses > 0
           /\ record.status = "within" <=> SelectedMonthExpenses = 0
           /\ summaryDom.budgetStatus = record.status
           /\ ArgumentOf("updateBudgetLimitDisplay") = 0
           /\ budgetLimitInput = <<>>

\* A month without a limit is shown with an expense, another month having one.
C11_Witness ==
    /\ HasCalled("renderSummary")
    /\ <<selectedMonth.year, selectedMonth.month>> \notin DOMAIN budgetLimits
    /\ DOMAIN budgetLimits # {}
    /\ SelectedMonthExpenses > 0
    /\ ArgumentOf("renderSummary").status = "over"

(***************************************************************************)
(* Vocabulary of the validation properties.                                *)
(***************************************************************************)
\* The error records the handler that ran last handed to showValidationError.
ErrorsShown ==
    LET picked == SelectSeq(calls, LAMBDA c : c[1] = "showValidationError")
    IN  [k \in 1..Len(picked) |-> picked[k][2]]

\* The fields of the form values f that break a rule of the specification.
ViolatedFields(f) ==
    {fld \in Fields :
        CASE fld = "date" ->
                 \/ f.date = <<>>
                 \/ Len(f.date) # 3
                 \/ f.date[2] \notin 1..12
                 \/ f.date[3] \notin 1..DaysInMonth(f.date[1], f.date[2])
          [] fld = "type" -> f.type # "income" /\ f.type # "expense"
          [] fld = "description" -> \A i \in 1..Len(f.description) : f.description[i] = " "
          [] fld = "amount" -> ~GtZero(parseFloat(f.amount))}

\* The input of the validation scenario.
ScenarioInput == FormValue(<<>>, "income", <<>>, <<"-", "5">>)

(***************************************************************************)
(* C12.  Submitting {date: "", type: "income", description: "", amount:    *)
(* "-5"} is rejected with three errors, one each for date, description and *)
(* amount and none for type, and each is shown at its field.               *)
(***************************************************************************)
C12_ScenarioHasThreeErrors ==
    (HasCalled("validateTransaction") /\ form = ScenarioInput)
    => /\ ~HasCalled("addTransaction")
       /\ Len(ErrorsShown) = 3
       /\ {ErrorsShown[k].field : k \in 1..Len(ErrorsShown)} =
              {"date", "description", "amount"}
       /\ \A fld \in Fields : errorText[fld] # "" <=> fld # "type"

\* The statement as first made: four errors, one for each of the four fields.
C12_ScenarioHasFourErrors ==
    (HasCalled("validateTransaction") /\ form = ScenarioInput)
    => /\ ~HasCalled("addTransaction")
       /\ Len(ErrorsShown) = 4
       /\ {ErrorsShown[k].field : k \in 1..Len(ErrorsShown)} = Fields

\* The scenario's input has just been submitted, the collection holding an entry.
C12_Witness ==
    /\ form = ScenarioInput
    /\ HasCalled("showValidationError")
    /\ errorText["amount"] = "Amount must be positive"
    /\ transactions # <<>>

(***************************************************************************)
(* C13.  After a submission the fields showing an error are exactly the    *)
(* fields of that submission that break a rule: every one of them was      *)
(* reported once and no other, whatever an earlier submission had left,    *)
(* and an accepted submission leaves no error shown.                       *)
(***************************************************************************)
C13_EveryViolatedFieldReported ==
    HasCalled("validateTransaction")
    => IF HasCalled("addTransaction")
       THEN errorText = NoErrors /\ inputError = {} /\ ErrorsShown = <<>>
       ELSE /\ ViolatedFields(form) # {}
            /\ {fld \in Fields : errorText[fld] # ""} = ViolatedFields(form)
            /\ inputError = ViolatedFields(form)
            /\ {ErrorsShown[k].field : k \in 1..Len(ErrorsShown)} = ViolatedFields(form)
            /\ Len(ErrorsShown) = Cardinality(ViolatedFields(form))

\* Only the type of the last submission was wrong, and every set of fields
\* is the set some submission breaks.
C13_Witness ==
    /\ HasCalled("showValidationError")
    /\ inputError = {"type"}
    /\ form.type = "transfer"
    /\ \A S \in SUBSET Fields : \E f \in EveryForm : ViolatedFields(f) = S

(***************************************************************************)
(* Vocabulary of the budget-limit properties.                              *)
(***************************************************************************)
\* The months that have a stored limit or are selected.
MonthKeys == DOMAIN budgetLimits \cup {<<selectedMonth.year, selectedMonth.month>>}

\* The limit stored in limits for the month key k, 0 when there is none.
LimitAt(limits, k) == IF k \in DOMAIN limits THEN limits[k] ELSE 0

\* What the budget-limit input shows for the stored limit n.
LimitText(n) == IF n = 0 THEN <<>> ELSE toFixed2(n)

\* The handler that ran last is init or the handler of a submission, of a
\* deletion or of a month change, none of which is a change of the limit.
OtherHandlerRan ==
    \/ HasCalled("DataManager.init")
    \/ HasCalled("validateTransaction")
    \/ HasCalled("deleteTransaction")
    \/ HasCalled("setSelectedMonth")

\* The limit is NaN or not positive.
Refused(limit) == limit[1] = "nan" \/ (limit[1] = "inf" /\ limit[2] < 0)
                     \/ (limit[1] = "fin" /\ limit[2] <= 0)

(***************************************************************************)
(* C14.  A NaN or non-positive limit, handed to handleBudgetLimitChange or *)
(* typed into the input and set, is refused: the limit of every month, the *)
(* collection, the selected month and the store are unchanged, nothing is  *)
(* rendered again, and the input shows the limit stored for the selected   *)
(* month.                                                                  *)
(***************************************************************************)
C14_RefusedLimitChangesNothing ==
    [][\/ OtherHandlerRan'
       \/ /\ UNCHANGED <<transactions, budgetLimits, selectedMonth,
                         storedTransactions, storedBudgetLimits>>
          /\ ~HasCalled("setBudgetLimit")'
          /\ ~HasCalled("renderSummary")'
          /\ budgetLimitInput' = LimitText(SelectedMonthLimit)
       \/ /\ \A limit \in LimitInputs :
                ~(Refused(limit) /\ handleBudgetLimitChange(limit))
          /\ \A text \in BudgetTexts :
                ~(Refused(parseFloat(text)) /\ budgetLimitListener(text))]_vars

\* A limit was just refused for a month that has a limit and an entry.
C14_Witness ==
    /\ Called = <<"updateBudgetLimitDisplay">>
    /\ SelectedMonthLimit = 200
    /\ budgetLimitInput = <<"2", ".", "0", "0">>
    /\ transactions # <<>>

(***************************************************************************)
(* C15.  A strictly positive finite limit handed to                        *)
(* handleBudgetLimitChange becomes the limit of the selected month and of  *)
(* no other month, and is stored; the collection and the selected month    *)
(* are unchanged.  A month change changes no limit, and the summary and    *)
(* the input then show the limit stored for the month changed to.          *)
(***************************************************************************)
C15_EachMonthKeepsItsLimit ==
    [][/\ \/ OtherHandlerRan'
          \/ \A limit \in LimitInputs :
                (/\ isFinite(limit) /\ GtZero(limit)
                 /\ handleBudgetLimitChange(limit))
                => /\ LimitAt(budgetLimits', <<selectedMonth.year, selectedMonth.month>>)
                         = limit[2]
                   /\ \A k \in (MonthKeys \cup MonthKeys') \
                                   {<<selectedMonth.year, selectedMonth.month>>} :
                         LimitAt(budgetLimits', k) = LimitAt(budgetLimits, k)
                   /\ UNCHANGED <<transactions, selectedMonth>>
                   /\ loadBudgetLimits(storedBudgetLimits') = budgetLimits'
                   /\ budgetLimitInput' = LimitText(limit[2])
       /\ \/ ~HasCalled("setSelectedMonth")'
          \/ \A value \in MonthChoices :
                monthSelectChange(value)
                => /\ UNCHANGED <<budgetLimits, transactions>>
                   /\ summary'.budgetLimit = LimitAt(budgetLimits, value)
                   /\ budgetLimitInput' = LimitText(LimitAt(budgetLimits, value))]_vars

\* January 2024 was changed to and shows its limit; January 2025 has none.
C15_Witness ==
    /\ calls # <<>>
    /\ Called[1] = "setSelectedMonth"
    /\ selectedMonth = [year |-> 2024, month |-> 1]
    /\ DOMAIN budgetLimits = {<<2024, 1>>}
    /\ summary.budgetLimit = 200
    /\ budgetLimitInput = <<"2", ".", "0", "0">>

(***************************************************************************)
(* C16.  Once init has run, the collection and the limits read back from   *)
(* the store are the collection, in its order, and the limits held in      *)
(* memory.  Closing the page leaves the store as it is, so the store a new *)
(* session finds reads back as what the closed session held; init takes    *)
(* the collection and the limits from it, leaves it as it is, and selects  *)
(* the current month whatever month was selected before.                   *)
(***************************************************************************)
C16_StoreMirrorsMemory ==
    /\ [](initialized => /\ loadTransactions(storedTransactions) = transactions
                          /\ loadBudgetLimits(storedBudgetLimits) = budgetLimits)
    /\ [][Reload => /\ UNCHANGED <<storedTransactions, storedBudgetLimits>>
                    /\ loadTransactions(storedTransactions') = transactions
                    /\ loadBudgetLimits(storedBudgetLimits') = budgetLimits]_vars
    /\ [][Init_AppController
             => /\ UNCHANGED <<storedTransactions, storedBudgetLimits>>
                /\ transactions' = loadTransactions(storedTransactions)
                /\ budgetLimits' = loadBudgetLimits(storedBudgetLimits)
                /\ selectedMonth' = [year |-> Today[1], month |-> Today[2]]]_vars

\* A session has just started on a store left by an earlier one: it holds
\* an amount with a fraction, a trimmed description and the limit set while
\* January 2024 was selected.
C16_Witness ==
    /\ initialized
    /\ calls # <<>>
    /\ Called[1] = "DataManager.init"
    /\ issued = Len(transactions)
    /\ \E i \in 1..Len(transactions) : transactions[i].amount = 50
    /\ \E i \in 1..Len(transactions) : transactions[i].description = <<"a">>
                                          /\ transactions[i].type = "income"
    /\ budgetLimits = [k \in {<<2024, 1>>} |-> 200]
    /\ selectedMonth = [year |-> Today[1], month |-> Today[2]]

(***************************************************************************)
(* C17.  Once init has run, after every handler the rows of the table are  *)
(* the stored transactions of the selected month, the summary record and   *)
(* the summary elements hold that month's limit, totals, remaining budget  *)
(* and status, and the chart holds its income, expenses and savings.       *)
(***************************************************************************)
C17_NoStaleView ==
    initialized
    => LET ofMonth == {i \in 1..Len(transactions) :
                          InMonth(transactions[i], selectedMonth)}
           income == SumAt(transactions,
                           {i \in ofMonth : transactions[i].type = "income"})
           expenses == SelectedMonthExpenses
           limit == SelectedMonthLimit
           status == IF expenses > limit THEN "over" ELSE "within"
       IN  /\ {tableRows[i].transactionId : i \in 1..Len(tableRows)} =
                  {transactions[i].id : i \in ofMonth}
           /\ Len(tableRows) = Cardinality(ofMonth)
           /\ emptyMessageShown <=> ofMonth = {}
           /\ summary = [budgetLimit |-> limit,
                         totalIncome |-> income,
                         totalExpenses |-> expenses,
                         remainingBudget |-> limit - expenses,
                         status |-> status]
           /\ summaryDom = [totalIncome |-> income,
                            totalExpenses |-> expenses,
                            remainingBudget |-> limit - expenses,
                            totalSavings |-> income - expenses,
                            budgetStatus |-> status]
           /\ chartManager.chart = <<income, expenses, income - expenses>>

\* A submission was just refused while January 2024 is shown with one of
\* the two stored transactions and a limit of its own.
C17_Witness ==
    /\ HasCalled("showValidationError")
    /\ selectedMonth = [year |-> 2024, month |-> 1]
    /\ Len(transactions) = 2
    /\ Len(tableRows) = 1
    /\ summary.budgetLimit = 200
    /\ summary.status = "within"

(***************************************************************************)
(* C18.  When init has just completed, with or without the month selector  *)
(* on the page, the selected month is the year and month of today, the     *)
(* month being one of 1..12, and the list and the summary rendered are     *)
(* those of that month; the selector, when there is one, shows it.         *)
(***************************************************************************)
C18_InitSelectsCurrentMonth ==
    (initialized /\ calls # <<>> /\ Called[1] = "DataManager.init")
    => LET ofMonth == {i \in 1..Len(transactions) :
                          /\ transactions[i].date[1] = Today[1]
                          /\ transactions[i].date[2] = Today[2]}
           record == ArgumentOf("renderSummary")
       IN  /\ selectedMonth.year = Today[1]
           /\ selectedMonth.month = Today[2]
           /\ selectedMonth.month \in 1..12
           /\ Entries(ArgumentOf("renderTransactionList")) =
                  {transactions[i] : i \in ofMonth}
           /\ record.totalIncome + record.totalExpenses = SumAt(transactions, ofMonth)
           /\ record.budgetLimit = LimitAt(budgetLimits, <<Today[1], Today[2]>>)
           /\ monthSelectElement => monthSelect = <<"2", "0", "2", "5", "-", "0", "1">>
           /\ ~monthSelectElement => monthSelect = <<>> /\ ~HasCalled("setSelectedMonth")

\* Init has just completed on a page without the month selector, the store
\* holding a transaction of the current month and one of another month.
C18_Witness ==
    /\ initialized
    /\ ~monthSelectElement
    /\ calls # <<>>
    /\ Called[1] = "DataManager.init"
    /\ Len(transactions) = 2
    /\ Len(ArgumentOf("renderTransactionList")) = 1

(***************************************************************************)
(* C19.  After refreshUI the savings element shows, and updateChart was    *)
(* handed as savings, the income of the selected month minus its expenses, *)
(* below zero included; the income and the expenses handed to updateChart  *)
(* are the totals of the summary.                                          *)
(***************************************************************************)
C19_SavingsIsIncomeMinusExpenses ==
    HasCalled("updateChart")
    => LET ofMonth == {i \in 1..Len(transactions) :
                          InMonth(transactions[i], selectedMonth)}
           income == SumAt(transactions,
                           {i \in ofMonth : transactions[i].type = "income"})
           expenses == SumAt(transactions,
                             {i \in ofMonth : transactions[i].type = "expense"})
           handed == ArgumentOf("updateChart")
           record == ArgumentOf("renderSummary")
       IN  /\ summaryDom.totalSavings = income - expenses
           /\ handed[3] = income - expenses
           /\ handed[1] = record.totalIncome
           /\ handed[2] = record.totalExpenses
           /\ chartManager.chart[3] = income - expenses

\* The selected month has an income of 1 and expenses of 2.
C19_Witness ==
    /\ HasCalled("updateChart")
    /\ ArgumentOf("updateChart") = <<100, 200, -100>>
    /\ summaryDom.totalSavings = -100

(***************************************************************************)
(* Vocabulary of the list properties.                                      *)
(***************************************************************************)
\* The date a is not earlier than the date b.
NotEarlier(a, b) ==
    \/ a[1] > b[1]
    \/ a[1] = b[1] /\ a[2] > b[2]
    \/ a[1] = b[1] /\ a[2] = b[2] /\ a[3] >= b[3]

(***************************************************************************)
(* C20.  After renderTransactionList(list) the table has one row for each  *)
(* transaction of list and no other, the row and its delete button carry   *)
(* the transaction's id, no row stands above a row of a later date, and    *)
(* list is as it was handed; the empty-list message is displayed exactly   *)
(* when list is empty and the table exactly when it is not.                *)
(***************************************************************************)
C20_RowsAreTheListNewestFirst ==
    HasCalled("renderTransactionList")
    => LET list == ArgumentOf("renderTransactionList")
       IN  /\ Len(tableRows) = Len(list)
           /\ \A k \in 1..Len(list) :
                 Cardinality({i \in 1..Len(tableRows) :
                                 tableRows[i].transactionId = list[k].id}) = 1
           /\ \A i \in 1..Len(tableRows) :
                 /\ tableRows[i].deleteTransactionId = tableRows[i].transactionId
                 /\ \E k \in 1..Len(list) :
                       /\ list[k].id = tableRows[i].transactionId
                       /\ list[k].date = tableRows[i].date
                       /\ list[k].amount = tableRows[i].amount
           /\ \A i, j \in 1..Len(tableRows) :
                 i < j => NotEarlier(tableRows[i].date, tableRows[j].date)
           /\ handedList = list
           /\ emptyMessageShown <=> list = <<>>
           /\ tableShown <=> list # <<>>

\* Four transactions were rendered that were handed oldest first.
C20_Witness ==
    /\ HasCalled("renderTransactionList")
    /\ Len(tableRows) = 4
    /\ handedList[1].date = <<2024, 12, 31>>
    /\ handedList[4].date = <<2025, 2, 1>>
    /\ tableRows[1].date = <<2025, 2, 1>>
    /\ tableRows[2].date = tableRows[3].date

(***************************************************************************)
(* Vocabulary of the chart properties.                                     *)
(***************************************************************************)
\* The figure updateChart takes for an income or an expenses argument.
ValidFigure(n) == IF n >= 0 THEN n ELSE 0

CanvasVisible == chartManager.canvasDisplay = "block"

FallbackVisible == chartManager.fallbackDisplay = "block"

\* The instances constructed on which destroy() was not called.
LiveCharts == (1..chartManager.constructed) \ chartManager.destroyed

(***************************************************************************)
(* C21.  After updateChart(income, expenses, savings), whatever went       *)
(* before it, the fallback panel if it is displayed shows the income and   *)
(* the expenses of the call (negative ones as 0), and the canvas if it is  *)
(* displayed belongs to a held chart whose data are those of the call.     *)
(***************************************************************************)
C21_VisiblePanelShowsLastUpdate ==
    HasCalled("updateChart")
    => LET handed == ArgumentOf("updateChart")
           income == ValidFigure(handed[1])
           expenses == ValidFigure(handed[2])
       IN  /\ FallbackVisible
              => chartManager.fallbackFigures
                     = <<WholeRupees(income), WholeRupees(expenses)>>
           /\ CanvasVisible
              => /\ chartManager.chart # <<>>
                 /\ chartManager.chart[1] = income
                 /\ chartManager.chart[2] = expenses

(***************************************************************************)
(* C22.  At most one Chart instance exists on which destroy() was not      *)
(* called, and it is the one getChartInstance returns; getChartInstance    *)
(* returns null when there is none, and always after destroyChart, whether *)
(* chart.destroy() threw or not.                                           *)
(***************************************************************************)
C22_AtMostOneLiveChart ==
    /\ Cardinality(LiveCharts) <= 1
    /\ LiveCharts = IF getChartInstance(chartManager) = 0 THEN {}
                    ELSE {getChartInstance(chartManager)}
    /\ chartManager.chart = <<>> <=> getChartInstance(chartManager) = 0
    /\ HasCalled("destroyChart") => getChartInstance(chartManager) = 0

\* Two charts were made, the first destroyed by the second initializeChart
\* and the second by the destroyChart that ran last.
C22_Witness ==
    /\ HasCalled("destroyChart")
    /\ chartManager.constructed = 2
    /\ chartManager.destroyed = {1, 2}
    /\ getChartInstance(chartManager) = 0

(***************************************************************************)
(* C24.  Once init has run on a page that has the month selector, the      *)
(* value of the selector is the text of the Data Manager's selected month, *)
(* whatever the selector was changed to and whatever handleMonthChange was *)
(* called with.                                                            *)
(***************************************************************************)
C24_SelectorShowsSelectedMonth ==
    (initialized /\ monthSelectElement)
    => monthSelect = MonthValue(selectedMonth.year, selectedMonth.month)

(***************************************************************************)
(* C23.  However often init is called, DataManager.init() has run at most  *)
(* once and no event has more than one listener, so that one event of the  *)
(* user runs its handler once.                                             *)
(***************************************************************************)
C23_InitTakesEffectOnce ==
    /\ dataManagerInits <= 1
    /\ \A e \in Events : listeners[e] <= 1

=============================================================================
